---- MODULE Spec2Model ----
(***************************************************************************)
(* Model of the test generation / evaluation service:                      *)
(*   routes_generate.py  generate_test                                     *)
(*   routes_evaluate.py  evaluate_test, evaluate_single_question,          *)
(*                       evaluate_mcq, calculate_rubric_score              *)
(*   storage.py          TestStorage                                       *)
(*   student_memory.py   StudentMemory                                     *)
(*   schemas.py          the pydantic models used for validation           *)
(*                                                                         *)
(* Text (answers, correct answers) is a sequence of one-character strings. *)
(* A percentage is an integer number of hundredths (66.67 is 6667).        *)
(* Optional[T] is a sequence: <<>> is None and <<v>> is the value v.       *)
(* The request handlers run on one event loop and never yield to it (the   *)
(* backend call is synchronous), so one request is in flight at a time.    *)
(*                                                                         *)
(* Spec         the handlers, one call_llm a step                          *)
(* SpecAdapter  llm_engine.py LLMEngine.call_llm, one backend request a    *)
(*              step                                                       *)
(* SpecLoop     evaluate submissions sharing the event loop                *)
(* SpecFiles    the two stores and their JSON files across restarts        *)
(***************************************************************************)
EXTENDS Integers, Sequences, FiniteSets, TLC

VARIABLES
    tests,      \* TestStorage.tests: test_id -> stored test
    memory,     \* StudentMemory.memory: student_id -> profile
    pc,         \* position of the request in flight
    ev,         \* locals of evaluate_test
    llm_calls,  \* the call_llm invocations of the request in flight
    response,   \* what the last finished request returned
    adapter,    \* locals of the LLMEngine.call_llm invocation under study
    loop,       \* the request the event loop is running (0: none)
    requests,   \* the evaluate submissions sharing the event loop
    test_file,  \* contents of test_storage.json
    memory_file,\* contents of student_memory.json
    returned    \* the store_test / update_after_test calls that returned

handlerVars == <<tests, memory, pc, ev, llm_calls, response>>
adapterVars == <<adapter>>
loopVars == <<loop, requests>>
fileVars == <<test_file, memory_file, returned>>

vars == <<tests, memory, pc, ev, llm_calls, response, adapter, loop, requests,
          test_file, memory_file, returned>>

\* ------------------------------------------------------------------ bounds
MaxQuestions == 2   \* largest number_of_questions requested
MaxTests == 1       \* generate calls that persist a test
MaxAnswers == 2     \* longest student_answers list
MaxHistory == 1     \* evaluations that update the student's profile

\* ------------------------------------------------------------------ helpers
None == <<>>

Some(v) == <<v>>

RECURSIVE SumSeq(_)
SumSeq(s) == IF s = <<>> THEN 0 ELSE Head(s) + SumSeq(Tail(s))

SeqsUpTo(S, n) == UNION {[1..k -> S] : k \in 0..n}

Range(s) == {s[k] : k \in DOMAIN s}

\* ------------------------------------------------------------------ text
Whitespace == {" "}

\* str.strip(): drop leading, then trailing whitespace
RECURSIVE lstrip(_)
lstrip(s) == IF s # <<>> /\ Head(s) \in Whitespace THEN lstrip(Tail(s)) ELSE s

RECURSIVE rstrip(_)
rstrip(s) ==
    IF s # <<>> /\ s[Len(s)] \in Whitespace
    THEN rstrip(SubSeq(s, 1, Len(s) - 1))
    ELSE s

strip(s) == rstrip(lstrip(s))

\* str.upper() on the characters of the model's alphabet
UpperChar(c) ==
    CASE c = "a" -> "A"
      [] c = "b" -> "B"
      [] OTHER -> c

upper(s) == [k \in DOMAIN s |-> UpperChar(s[k])]

\* ------------------------------------------------------------------ schemas
QuestionTypeValues == {"mcq", "short", "numerical"}

DefaultExplanation == "No explanation provided"

DefaultConceptTag == "general"

Missing == "<missing>"

LabelsABCD == <<"A", "B", "C", "D">>

\* Questions a backend payload may carry.  A field the payload omits is
\* Missing; question_type "essay" is not a QuestionType.
RawQuestions ==
    { [question_id |-> "q1", question_text |-> "pick one", question_type |-> "mcq",
       mcq_options |-> Some(LabelsABCD), correct_answer |-> <<"B">>,
       explanation |-> "because", concept_tag |-> "loops", points |-> 10],
      [question_id |-> "q2", question_text |-> "explain", question_type |-> "short",
       mcq_options |-> None, correct_answer |-> <<"a", " ", "b">>,
       explanation |-> "because", concept_tag |-> "loops", points |-> 3],
      [question_id |-> "q2", question_text |-> "pick again", question_type |-> "mcq",
       mcq_options |-> None, correct_answer |-> <<" ", "b">>,
       explanation |-> Missing, concept_tag |-> "recursion", points |-> 0],
      [question_id |-> "q1", question_text |-> "compute", question_type |-> "numerical",
       mcq_options |-> None, correct_answer |-> <<"A">>,
       explanation |-> "because", concept_tag |-> Missing, points |-> 10],
      [question_id |-> "q2", question_text |-> "describe", question_type |-> "short",
       mcq_options |-> Some(LabelsABCD), correct_answer |-> <<"b">>,
       explanation |-> "because", concept_tag |-> "recursion", points |-> -10],
      [question_id |-> "q1", question_text |-> "write", question_type |-> "essay",
       mcq_options |-> None, correct_answer |-> <<"A">>,
       explanation |-> "because", concept_tag |-> "loops", points |-> 10] }

\* QuestionInternal(**q): the type must be a QuestionType; defaults fill
\* the omitted explanation and concept_tag.
QuestionInternalValid(q) == q.question_type \in QuestionTypeValues

QuestionInternal(q) ==
    [q EXCEPT !.explanation = IF @ = Missing THEN DefaultExplanation ELSE @,
              !.concept_tag = IF @ = Missing THEN DefaultConceptTag ELSE @]

\* a projection that copies the internal question
QuestionPublic_Leaky(q) == q

\* QuestionPublic(question_id=..., question_text=..., question_type=...,
\*                mcq_options=..., points=...)
QuestionPublic(q) ==
    [question_id |-> q.question_id, question_text |-> q.question_text,
     question_type |-> q.question_type, mcq_options |-> q.mcq_options,
     points |-> q.points]

\* ------------------------------------------------------------------ adapter
\* What one call_llm returns or raises: a non-parse failure of the backend,
\* unparseable JSON after the retries, or the parsed payload.
AdapterResults(payloads) ==
    { [kind |-> "BackendError", payload |-> None],
      [kind |-> "MalformedResponse", payload |-> None] }
    \cup { [kind |-> "parsed", payload |-> Some(p)] : p \in payloads }

\* Parsed JSON for the generation prompt: an object with "questions", an
\* object without it, or a JSON value that is no object.
GenerationPayloads ==
    { [shape |-> "dict", questions |-> Some(qs)] :
        qs \in SeqsUpTo(RawQuestions, MaxQuestions) }
    \cup { [shape |-> "dict", questions |-> None],
           [shape |-> "list", questions |-> None] }

\* a validation that checks the payload's shape but not its questions
LLMQuestionGenerationValid_ShapeOnly(p) ==
    /\ p.shape = "dict"
    /\ p.questions # None

\* LLMQuestionGeneration(**llm_response)
LLMQuestionGenerationValid(p) ==
    /\ p.shape = "dict"
    /\ p.questions # None
    /\ \A k \in DOMAIN p.questions[1] : QuestionInternalValid(p.questions[1][k])

LLMQuestionGeneration(p) ==
    [k \in DOMAIN p.questions[1] |-> QuestionInternal(p.questions[1][k])]

Topics == {"python"}

Difficulties == {"easy"}

GenerateRequests ==
    [topic : Topics, difficulty : Difficulties, number_of_questions : 1..MaxQuestions]

\* ------------------------------------------------------------------ storage
TestIds == 1..MaxTests

\* a test_id that is in no stored test (uuid4)
FreshTestId == Cardinality(DOMAIN tests) + 1

\* TestStorage.store_test
store_test(store, test_id, questions, topic, difficulty) ==
    [t \in DOMAIN store \cup {test_id} |->
        IF t = test_id
        THEN [test_id |-> test_id, topic |-> topic, difficulty |-> difficulty,
              questions |-> questions]
        ELSE store[t]]

\* TestStorage.get_test
get_test(store, test_id) ==
    IF test_id \in DOMAIN store THEN Some(store[test_id]) ELSE None

HTTPException(status, detail) ==
    [kind |-> "error", status_code |-> status, detail |-> detail]

NoResponse == [kind |-> "none"]

\* ------------------------------------------------------------------ generate
\* a total that takes every question to be worth ten points
TotalPoints_TenEach(internal_questions) == 10 * Len(internal_questions)

\* total_points += q.points over internal_questions
TotalPoints(internal_questions) ==
    SumSeq([k \in DOMAIN internal_questions |-> internal_questions[k].points])

\* routes_generate.generate_test, one request from start to response
GenerateTest(request, result) ==
    /\ pc = "idle"
    /\ Cardinality(DOMAIN tests) < MaxTests
    /\ llm_calls' = <<[purpose |-> "generation", question |-> 0]>>
    /\ IF result.kind # "parsed"
       THEN /\ response' = HTTPException(500, "Test generation failed")
            /\ tests' = tests
       ELSE LET p == result.payload[1] IN
            IF p.shape # "dict"
            THEN /\ response' = HTTPException(500, "Test generation failed")
                 /\ tests' = tests
            ELSE IF ~LLMQuestionGenerationValid(p)
            THEN /\ response' = HTTPException(500, "LLM returned invalid question format")
                 /\ tests' = tests
            ELSE LET internal_questions == LLMQuestionGeneration(p) IN
                 IF Len(internal_questions) # request.number_of_questions
                 THEN /\ response' = HTTPException(500, "LLM generated wrong number of questions")
                      /\ tests' = tests
                 ELSE /\ tests' = store_test(tests, FreshTestId, internal_questions,
                                             request.topic, request.difficulty)
                      /\ response' =
                           [kind |-> "generate",
                            test_id |-> FreshTestId,
                            questions |-> [k \in DOMAIN internal_questions |->
                                             QuestionPublic(internal_questions[k])],
                            total_points |-> TotalPoints(internal_questions),
                            topic |-> request.topic,
                            difficulty |-> request.difficulty]
    /\ UNCHANGED <<memory, pc, ev>>
    /\ UNCHANGED <<adapterVars, loopVars, fileVars>>

Generate ==
    \E request \in GenerateRequests, result \in AdapterResults(GenerationPayloads) :
        GenerateTest(request, result)

\* ------------------------------------------------------------------ scoring
\* a comparison that forgets to trim
evaluate_mcq_NoStrip(correct_answer, student_answer) ==
    upper(correct_answer) = upper(student_answer)

\* routes_evaluate.evaluate_mcq
evaluate_mcq(correct_answer, student_answer) ==
    upper(strip(correct_answer)) = upper(strip(student_answer))

\* int(x): truncation toward zero of the exact quotient n / d, d > 0
TruncDiv(n, d) == IF n >= 0 THEN n \div d ELSE -((-n) \div d)

Sign(n) == IF n > 0 THEN 1 ELSE IF n < 0 THEN -1 ELSE 0

\* The rubric totals s for which the binary64 value of ((s / 15) * 100) / 100
\* times max_points is just short of the exact quotient whenever that
\* quotient is a whole number (evaluated for |max_points| < 75; the points
\* of RawQuestions are within that range).
FloatShortfall == {5, 7, 10, 14}

MaxRubric == 15

\* routes_evaluate.calculate_rubric_score: the float arithmetic, then int()
calculate_rubric_score(accuracy, clarity, explanation, max_points) ==
    LET total_rubric == accuracy + clarity + explanation
        exact == total_rubric * max_points
    IN  IF exact % MaxRubric = 0 /\ max_points # 0 /\ total_rubric \in FloatShortfall
        THEN (exact \div MaxRubric) - Sign(max_points)
        ELSE TruncDiv(exact, MaxRubric)

\* round(n / d, 0) for d > 0, ties to even
RoundHalfEven(n, d) ==
    LET q == n \div d
        r == n % d
    IN  IF 2 * r > d \/ (2 * r = d /\ q % 2 = 1) THEN q + 1 ELSE q

\* round((total_score / max_score * 100), 2) if max_score > 0 else 0,
\* in hundredths
Percentage(total_score, max_score) ==
    IF max_score > 0 THEN RoundHalfEven(10000 * total_score, max_score) ELSE 0

\* ------------------------------------------------------------------ evaluation inputs
QuestionIds == {"q1", "q2"}

AnswerTexts == {<<>>, <<"b", " ">>, <<"A">>}

StudentAnswer == [question_id : QuestionIds, answer : AnswerTexts]

\* a test_id no generate call allocates
UnknownTestId == MaxTests + 1

EvaluateRequests ==
    [test_id : {UnknownTestId} \cup TestIds,
     student_answers : SeqsUpTo(StudentAnswer, MaxAnswers)]

\* {ans.question_id: ans.answer for ans in request.student_answers}:
\* the last entry of a question_id wins
AnswerMap(student_answers) ==
    LET ids == {student_answers[k].question_id : k \in DOMAIN student_answers}
        last(q) == CHOOSE k \in DOMAIN student_answers :
                      /\ student_answers[k].question_id = q
                      /\ \A j \in DOMAIN student_answers :
                            student_answers[j].question_id = q => j <= k
    IN  [q \in ids |-> student_answers[last(q)].answer]

\* a lookup whose default is a non-empty answer
AnswerOf_WrongDefault(answer_map, question_id) ==
    IF question_id \in DOMAIN answer_map THEN answer_map[question_id] ELSE <<"A">>

\* answer_map.get(question_id, "")
AnswerOf(answer_map, question_id) ==
    IF question_id \in DOMAIN answer_map THEN answer_map[question_id] ELSE <<>>

ScoreTriples == {<<0, 0, 0>>, <<5, 5, 5>>, <<3, 2, 4>>, <<2, 2, 1>>, <<3, 3, 2>>}

LLMFeedbackText == <<"llm feedback">>

\* Parsed JSON for an evaluation prompt.  A score is None when its key is
\* absent; feedback and is_conceptually_correct are named by their JSON kind.
EvaluationPayload(shape, a, c, e, feedback, icc) ==
    [shape |-> shape, accuracy_score |-> a, clarity_score |-> c,
     explanation_score |-> e, feedback |-> feedback, is_conceptually_correct |-> icc]

EvaluationPayloads ==
    { EvaluationPayload("dict", Some(t[1]), Some(t[2]), Some(t[3]), "string", "bool") :
        t \in ScoreTriples }
    \cup { EvaluationPayload("dict", None, None, None, "string", "missing"),
           EvaluationPayload("dict", None, None, None, "missing", "missing"),
           EvaluationPayload("dict", None, None, None, "null", "missing"),
           EvaluationPayload("dict", Some(6), Some(5), Some(5), "string", "bool"),
           EvaluationPayload("dict", Some(4), Some(4), Some(4), "missing", "bool"),
           EvaluationPayload("dict", Some(4), Some(4), Some(4), "string", "missing"),
           EvaluationPayload("list", None, None, None, "missing", "missing") }

\* a score check without the upper limit
RubricScoreValid_NoUpper(x) == x # None /\ x[1] >= 0

\* int = Field(..., ge=0, le=5)
RubricScoreValid(x) == x # None /\ x[1] >= 0 /\ x[1] <= 5

\* LLMEvaluationResult(**llm_response) for an object
LLMEvaluationResultValid(p) ==
    /\ RubricScoreValid(p.accuracy_score)
    /\ RubricScoreValid(p.clarity_score)
    /\ RubricScoreValid(p.explanation_score)
    /\ p.feedback = "string"
    /\ p.is_conceptually_correct = "bool"

NoAnswerFeedback == <<"No answer provided.">>

DefaultMcqFeedback == <<"Answer evaluated.">>

\* f"Your answer is {'correct' if is_correct else 'incorrect'}. {explanation}"
FallbackMcqFeedback(is_correct, explanation) ==
    <<"Your answer is ", IF is_correct THEN "correct" ELSE "incorrect", ". ", explanation>>

QuestionFeedback(question_data, student_answer, is_correct, scores, points_earned, feedback) ==
    [question_id |-> question_data.question_id,
     question_type |-> question_data.question_type,
     student_answer |-> student_answer,
     correct_answer |-> question_data.correct_answer,
     is_correct |-> is_correct,
     accuracy_score |-> IF scores = None THEN None ELSE Some(scores[1][1]),
     clarity_score |-> IF scores = None THEN None ELSE Some(scores[1][2]),
     explanation_score |-> IF scores = None THEN None ELSE Some(scores[1][3]),
     points_earned |-> points_earned,
     points_possible |-> question_data.points,
     feedback |-> feedback,
     concept_tag |-> question_data.concept_tag]

\* What a call returns or raises: value is <<v>> on return; otherwise raised
\* is <<e>>, and e.http tells an HTTPException from any other exception.
Returned(v) == [value |-> Some(v), raised |-> None]

Raised(http, detail) == [value |-> None, raised |-> Some([http |-> http, detail |-> detail])]

\* llm_response.get("feedback", "Answer evaluated.") inside the try of the
\* mcq branch; the except branch gives the templated text.  None stands for
\* a JSON null.
McqFeedbackText(result, is_correct, explanation) ==
    IF result.kind = "parsed" /\ result.payload[1].shape = "dict"
    THEN CASE result.payload[1].feedback = "missing" -> Some(DefaultMcqFeedback)
           [] result.payload[1].feedback = "string" -> Some(LLMFeedbackText)
           [] OTHER -> None
    ELSE Some(FallbackMcqFeedback(is_correct, explanation))

\* routes_evaluate.evaluate_single_question
evaluate_single_question(question_data, student_answer, result) ==
    IF question_data.question_type = "mcq"
    THEN LET is_correct == evaluate_mcq(question_data.correct_answer, student_answer)
             points_earned == IF is_correct THEN question_data.points ELSE 0
             feedback == McqFeedbackText(result, is_correct, question_data.explanation)
         IN  IF feedback = None
             THEN Raised(FALSE, "ValidationError: QuestionFeedback.feedback")
             ELSE Returned(QuestionFeedback(question_data, student_answer,
                                            Some(is_correct), None, points_earned,
                                            feedback[1]))
    ELSE IF result.kind # "parsed" \/ result.payload[1].shape # "dict"
         THEN Raised(TRUE, "Question evaluation failed")
         ELSE IF ~LLMEvaluationResultValid(result.payload[1])
         THEN Raised(TRUE, "LLM evaluation response validation failed")
         ELSE LET p == result.payload[1]
                  points_earned == calculate_rubric_score(
                                      p.accuracy_score[1], p.clarity_score[1],
                                      p.explanation_score[1], question_data.points)
              IN  Returned(QuestionFeedback(
                              question_data, student_answer, None,
                              Some(<<p.accuracy_score[1], p.clarity_score[1],
                                     p.explanation_score[1]>>),
                              points_earned, LLMFeedbackText))

\* ------------------------------------------------------------------ student memory
StudentId == "default_student"

\* list(s) of a set s: the elements once each, in an order the set decides
Orderings(S) == {o \in [1..Cardinality(S) -> S] : Range(o) = S}

\* a mean taken over one test more than the history holds
RoundedMean_OneTooMany(h, n) == {h \div (n + 1)}

\* round(h / n, 0) of the float quotient: the nearest integer; when the
\* exact quotient lies halfway, the binary value of the quotient decides and
\* either neighbour can result
RoundedMean(h, n) ==
    LET q == h \div n
        r == h % n
    IN  IF 2 * r < n THEN {q} ELSE IF 2 * r > n THEN {q + 1} ELSE {q, q + 1}

\* a weak set that keeps only the concepts of the latest test
CurrentWeak_LatestOnly(student_weak, weak_concepts) == Range(weak_concepts)

\* current_weak = set(student["weak_concepts"]); current_weak.update(weak_concepts)
CurrentWeak(student_weak, weak_concepts) ==
    Range(student_weak) \cup Range(weak_concepts)

\* StudentMemory.update_after_test: the profiles the call can leave in
\* memory (the timestamp of the record is not modelled)
update_after_test(mem, student_id, test_id, topic, total_score, max_score, weak_concepts) ==
    LET student == IF student_id \in DOMAIN mem
                   THEN mem[student_id]
                   ELSE [student_id |-> student_id, test_history |-> <<>>,
                         concept_scores |-> <<>>, weak_concepts |-> <<>>,
                         total_tests |-> 0, average_score |-> 0]
        test_record == [test_id |-> test_id, topic |-> topic, score |-> total_score,
                        max_score |-> max_score,
                        percentage |-> Percentage(total_score, max_score),
                        weak_concepts |-> weak_concepts]
        test_history == Append(student.test_history, test_record)
        current_weak == CurrentWeak(student.weak_concepts, weak_concepts)
        total_tests == Len(test_history)
        total_percentage == SumSeq([k \in DOMAIN test_history |-> test_history[k].percentage])
    IN  { [s \in DOMAIN mem \cup {student_id} |->
             IF s = student_id
             THEN [student EXCEPT !.test_history = test_history,
                                  !.weak_concepts = weak_list,
                                  !.total_tests = total_tests,
                                  !.average_score = average]
             ELSE mem[s]] :
          weak_list \in Orderings(current_weak),
          average \in RoundedMean(total_percentage, total_tests) }

\* StudentMemory.get_student_profile
get_student_profile(mem, student_id) ==
    IF student_id \in DOMAIN mem THEN Some(mem[student_id]) ELSE None

HistoryLength ==
    IF StudentId \in DOMAIN memory THEN Len(memory[StudentId].test_history) ELSE 0

\* ------------------------------------------------------------------ evaluate
\* evaluate_test up to the loop over the questions
EvaluateStart(request) ==
    /\ pc = "idle"
    /\ HistoryLength < MaxHistory
    /\ llm_calls' = <<>>
    /\ IF get_test(tests, request.test_id) = None
       THEN /\ response' = HTTPException(404, "Test not found")
            /\ pc' = "idle"
            /\ ev' = [test_id |-> request.test_id]
       ELSE /\ response' = NoResponse
            /\ pc' = "questions"
            /\ ev' = [test_id |-> request.test_id,
                      answer_map |-> AnswerMap(request.student_answers),
                      i |-> 1,
                      question_feedback |-> <<>>,
                      total_score |-> 0,
                      max_score |-> 0,
                      weak_concepts |-> <<>>]
    /\ UNCHANGED <<tests, memory>>
    /\ UNCHANGED <<adapterVars, loopVars, fileVars>>

TestData == tests[ev.test_id]

InLoop == pc = "questions" /\ ev.i <= Len(TestData.questions)

\* the tail of one loop iteration: append the feedback, add up the scores
LoopAccumulate(feedback, weak) ==
    ev' = [ev EXCEPT !.i = @ + 1,
                     !.question_feedback = Append(@, feedback),
                     !.total_score = @ + feedback.points_earned,
                     !.max_score = @ + feedback.points_possible,
                     !.weak_concepts = IF weak THEN Append(@, feedback.concept_tag) ELSE @]

\* one loop iteration of evaluate_test, `if not student_answer` branch
EvaluateUnanswered ==
    /\ InLoop
    /\ LET question_data == TestData.questions[ev.i]
           student_answer == AnswerOf(ev.answer_map, question_data.question_id)
       IN  /\ student_answer = <<>>
           /\ LoopAccumulate(QuestionFeedback(question_data, <<>>, None, None, 0,
                                              NoAnswerFeedback), TRUE)
    /\ UNCHANGED <<tests, memory, pc, llm_calls, response>>
    /\ UNCHANGED <<adapterVars, loopVars, fileVars>>

\* avg_score < 3 for the three scores of a rubric feedback
RubricWeak(feedback) ==
    LET score(x) == IF x = None THEN 0 ELSE x[1]
    IN  score(feedback.accuracy_score) + score(feedback.clarity_score)
          + score(feedback.explanation_score) < 3 * 3

IsWeak(feedback) ==
    IF feedback.question_type = "mcq"
    THEN ~feedback.is_correct[1]
    ELSE RubricWeak(feedback)

\* one loop iteration of evaluate_test, else branch
EvaluateAnswered(result) ==
    /\ InLoop
    /\ LET question_data == TestData.questions[ev.i]
           student_answer == AnswerOf(ev.answer_map, question_data.question_id)
           outcome == evaluate_single_question(question_data, student_answer, result)
       IN  /\ student_answer # <<>>
           /\ llm_calls' = Append(llm_calls, [purpose |-> question_data.question_type,
                                              question |-> ev.i])
           /\ IF outcome.raised # None
              THEN /\ response' = HTTPException(500,
                                     IF outcome.raised[1].http
                                     THEN outcome.raised[1].detail
                                     ELSE "Test evaluation failed")
                   /\ pc' = "idle"
                   /\ ev' = ev
              ELSE /\ LoopAccumulate(outcome.value[1], IsWeak(outcome.value[1]))
                   /\ UNCHANGED <<pc, response>>
    /\ UNCHANGED <<tests, memory>>
    /\ UNCHANGED <<adapterVars, loopVars, fileVars>>

SuggestionKinds == {"missing", "null", "empty", "list", "string"}

OverallFeedbackKinds == {"missing", "null", "empty", "string", "list"}

\* Parsed JSON for the overall feedback prompt, each value named by its JSON
\* kind ("empty" is [] or "")
OverallPayloads ==
    [shape : {"dict"}, improvement_suggestions : SuggestionKinds,
     overall_feedback : OverallFeedbackKinds]
    \cup {[shape |-> "list", improvement_suggestions |-> "missing",
           overall_feedback |-> "missing"]}

EmptyDict == [shape |-> "dict", improvement_suggestions |-> "missing",
              overall_feedback |-> "missing"]

\* bool(value) of a JSON value of the kind
Truthy(kind) == kind \in {"list", "string"}

\* a list that keeps its duplicates
DedupedWeakConcepts_Keep(weak_concepts) == {weak_concepts}

\* list(set(weak_concepts)): the lists the conversion can give
DedupedWeakConcepts(weak_concepts) == Orderings(Range(weak_concepts))

\* weak_concepts[:3]
FirstThree(s) == SubSeq(s, 1, IF Len(s) < 3 THEN Len(s) ELSE 3)

\* evaluate_test after the loop: percentage, overall feedback, student
\* memory, response
EvaluateFinish(result) ==
    /\ pc = "questions"
    /\ ev.i > Len(TestData.questions)
    /\ llm_calls' = Append(llm_calls, [purpose |-> "overall", question |-> 0])
    /\ pc' = "idle"
    /\ ev' = ev
    /\ tests' = tests
    /\ UNCHANGED <<adapterVars, loopVars, fileVars>>
    /\ \E weak_concepts \in DedupedWeakConcepts(ev.weak_concepts) :
         LET percentage == Percentage(ev.total_score, ev.max_score)
             overall_response == IF result.kind = "parsed" THEN result.payload[1]
                                 ELSE EmptyDict
             got_suggestions == overall_response.improvement_suggestions
             got_feedback == overall_response.overall_feedback
             use_fallback == \/ (got_suggestions # "missing" /\ ~Truthy(got_suggestions))
                             \/ (got_feedback # "missing" /\ ~Truthy(got_feedback))
             improvement_suggestions ==
                 IF use_fallback THEN [source |-> "fallback", focus |-> FirstThree(weak_concepts)]
                 ELSE IF got_suggestions = "missing" THEN [source |-> "default", focus |-> <<>>]
                 ELSE [source |-> got_suggestions, focus |-> <<>>]
             overall_feedback ==
                 IF use_fallback THEN [source |-> "fallback", percentage |-> percentage]
                 ELSE IF got_feedback = "missing"
                 THEN [source |-> "default", percentage |-> percentage]
                 ELSE [source |-> got_feedback, percentage |-> percentage]
         IN  IF overall_response.shape # "dict"
             THEN /\ response' = HTTPException(500, "Test evaluation failed")
                  /\ memory' = memory
             ELSE /\ memory' \in update_after_test(memory, StudentId, ev.test_id,
                                                   TestData.topic, ev.total_score,
                                                   ev.max_score, weak_concepts)
                  /\ IF improvement_suggestions.source = "string"
                        \/ overall_feedback.source = "list"
                     THEN response' = HTTPException(500, "Test evaluation failed")
                     ELSE response' =
                            [kind |-> "evaluate",
                             test_id |-> ev.test_id,
                             total_score |-> ev.total_score,
                             max_score |-> ev.max_score,
                             percentage |-> percentage,
                             question_feedback |-> ev.question_feedback,
                             weak_concepts |-> weak_concepts,
                             improvement_suggestions |-> improvement_suggestions,
                             overall_feedback |-> overall_feedback]

Evaluate ==
    \/ \E request \in EvaluateRequests : EvaluateStart(request)
    \/ EvaluateUnanswered
    \/ \E result \in AdapterResults(EvaluationPayloads) : EvaluateAnswered(result)
    \/ \E result \in AdapterResults(OverallPayloads) : EvaluateFinish(result)

NoEvaluation == [test_id |-> 0]

\* no call_llm invocation under study
NoCall == [pc |-> "idle"]

\* no submissions on the event loop
NoRequests == <<>>

\* a storage file that does not exist
NoFile == [state |-> "absent"]

\* no store_test and no update_after_test call has returned
NothingReturned == [tests |-> <<>>, memory |-> <<>>, updates |-> 0]

\* the handlers' state after construction
InitHandlers ==
    /\ tests = <<>>
    /\ memory = <<>>
    /\ pc = "idle"
    /\ ev = NoEvaluation
    /\ llm_calls = <<>>
    /\ response = NoResponse

Init ==
    /\ InitHandlers
    /\ adapter = NoCall
    /\ loop = 0
    /\ requests = NoRequests
    /\ test_file = NoFile
    /\ memory_file = NoFile
    /\ returned = NothingReturned

Next == Generate \/ Evaluate

Spec == Init /\ [][Next]_vars

\* ------------------------------------------------------------------ call_llm
\* LLMEngine.call_llm step by step.  The text of a backend reply is a
\* sequence of tokens: the code fence (three backquotes), the word "json", a blank, the text of
\* a JSON value ("{}" an object, "[]" an array) or other prose "x".
MaxRetries == 3     \* largest max_retries a call is made with

Fence == "fence"

JsonTexts == {"{}", "[]"}

startswith(s, prefix) ==
    Len(s) >= Len(prefix) /\ SubSeq(s, 1, Len(prefix)) = prefix

endswith(s, suffix) ==
    Len(s) >= Len(suffix) /\ SubSeq(s, Len(s) - Len(suffix) + 1, Len(s)) = suffix

\* a reply handed to json.loads after strip() only
StripCodeFences_None(content) == strip(content)

\* content.strip(); drop a leading fence with "json", a leading fence,
\* a trailing fence; strip() again
StripCodeFences(content) ==
    LET c0 == strip(content)
        c1 == IF startswith(c0, <<Fence, "json">>) THEN SubSeq(c0, 3, Len(c0)) ELSE c0
        c2 == IF startswith(c1, <<Fence>>) THEN SubSeq(c1, 2, Len(c1)) ELSE c1
        c3 == IF endswith(c2, <<Fence>>) THEN SubSeq(c2, 1, Len(c2) - 1) ELSE c2
    IN strip(c3)

\* json.loads: the parsed value, or None for json.JSONDecodeError
json_loads(content) ==
    IF Len(content) = 1 /\ content[1] \in JsonTexts THEN Some(content[1]) ELSE None

Contents ==
    { <<"{}">>,
      <<" ", "[]", " ">>,
      <<Fence, "json", " ", "{}", " ", Fence>>,
      <<Fence, " ", "{}", " ", Fence>>,
      <<Fence, "json", " ", "{}">>,
      <<"x", " ", "{}">>,
      <<Fence, "json", " ", "x", " ", Fence>>,
      <<>> }

\* What chat.completions.create gives one request: it raises, or the message
\* content is None, or the content is text.
BackendReplies ==
    { [kind |-> "raises", content |-> <<>>],
      [kind |-> "null", content |-> <<>>] }
    \cup { [kind |-> "text", content |-> c] : c \in Contents }

\* the body of the try block for one reply
AttemptOutcome(reply) ==
    IF reply.kind # "text"
    THEN [kind |-> "Exception", value |-> None]
    ELSE LET result == json_loads(StripCodeFences(reply.content)) IN
         IF result = None
         THEN [kind |-> "JSONDecodeError", value |-> None]
         ELSE [kind |-> "return", value |-> result]

\* a loop that goes on after any failure while attempts remain
Retries_AnyFailure(outcome, attempt, max_retries) ==
    outcome.kind # "return" /\ attempt < max_retries - 1

\* except json.JSONDecodeError: if attempt < max_retries - 1: ... continue
Retries(outcome, attempt, max_retries) ==
    outcome.kind = "JSONDecodeError" /\ attempt < max_retries - 1

\* raise ValueError(...)
MalformedResponse(requests_made) ==
    [pc |-> "raised", kind |-> "MalformedResponse", exception |-> "ValueError",
     payload |-> None, requests |-> requests_made]

\* raise Exception("LLM API call failed: ...")
BackendError(requests_made) ==
    [pc |-> "raised", kind |-> "BackendError", exception |-> "Exception",
     payload |-> None, requests |-> requests_made]

\* call_llm(prompt, model, temperature, max_retries) is entered; prompt
\* counts the reinforcement clauses appended to the caller's prompt
CallLlm(max_retries) ==
    /\ adapter.pc = "idle"
    /\ adapter' = IF max_retries > 0
                  THEN [pc |-> "attempt", attempt |-> 0, max_retries |-> max_retries,
                        prompt |-> 0, requests |-> <<>>]
                  ELSE MalformedResponse(<<>>)
                         @@ [attempt |-> 0, max_retries |-> max_retries, prompt |-> 0]
    /\ UNCHANGED <<handlerVars, loopVars, fileVars>>

\* one iteration of the for loop: the request, the reply, its handling
AdapterAttempt(reply) ==
    /\ adapter.pc = "attempt"
    /\ LET requests_made == Append(adapter.requests,
                                   [prompt |-> adapter.prompt, reply |-> reply])
           outcome == AttemptOutcome(reply)
           locals == [attempt |-> adapter.attempt, max_retries |-> adapter.max_retries,
                      prompt |-> adapter.prompt]
       IN adapter' =
            IF outcome.kind = "return"
            THEN [pc |-> "returned", kind |-> "parsed", exception |-> "",
                  payload |-> outcome.value, requests |-> requests_made] @@ locals
            ELSE IF Retries(outcome, adapter.attempt, adapter.max_retries)
            THEN [adapter EXCEPT !.attempt = @ + 1, !.prompt = @ + 1,
                                 !.requests = requests_made]
            ELSE IF outcome.kind = "JSONDecodeError"
            THEN MalformedResponse(requests_made) @@ locals
            ELSE BackendError(requests_made) @@ locals
    /\ UNCHANGED <<handlerVars, loopVars, fileVars>>

NextAdapter ==
    \/ \E max_retries \in 0..MaxRetries : CallLlm(max_retries)
    \/ \E reply \in BackendReplies : AdapterAttempt(reply)

SpecAdapter == Init /\ [][NextAdapter]_vars

\* ------------------------------------------------------------------ event loop
\* Evaluate submissions sharing the one event loop of the process.  A
\* handler is a coroutine: once the loop runs it, it keeps the loop until it
\* awaits something that suspends it.
MaxRequests == 3    \* largest number of evaluate submissions

\* a handler that gives up the loop inside update_after_test
Suspends_InUpdate(point) == point = "update_after_test"

\* Does the handler suspend at this point?  call_llm(...) and
\* memory.update_after_test(...) are plain calls, not awaited.
Suspends(point) == FALSE

\* What the question loop of one evaluation hands to student memory
EvaluationTotals ==
    { [total_score |-> 10, max_score |-> 10, weak_concepts |-> <<>>],
      [total_score |-> 1, max_score |-> 3, weak_concepts |-> <<"loops">>],
      [total_score |-> 5, max_score |-> 10, weak_concepts |-> <<"recursion", "loops">>],
      [total_score |-> 0, max_score |-> 10, weak_concepts |-> <<"loops", "loops">>] }

\* the loop is free for request r to go on
CanRun(r) == loop = 0 \/ loop = r

\* an evaluate request arrives
Submit ==
    /\ Len(requests) < MaxRequests
    /\ requests' = Append(requests, [pc |-> "accepted"])
    /\ UNCHANGED <<handlerVars, adapterVars, loop, fileVars>>

\* the loop starts evaluate_test, which runs up to its call_llm
HandlerRuns(r) ==
    /\ requests[r].pc = "accepted"
    /\ loop = 0
    /\ requests' = [requests EXCEPT ![r] = [pc |-> "call_llm"]]
    /\ loop' = IF Suspends("call_llm") THEN 0 ELSE r
    /\ UNCHANGED <<handlerVars, adapterVars, fileVars>>

\* the backend answers; evaluate_test goes on to the student memory update
BackendAnswers(r, totals) ==
    /\ requests[r].pc = "call_llm"
    /\ CanRun(r)
    /\ requests' = [requests EXCEPT ![r] = [pc |-> "scored", totals |-> totals]]
    /\ loop' = r
    /\ UNCHANGED <<handlerVars, adapterVars, fileVars>>

\* update_after_test reads the profile
UpdateReads(r) ==
    /\ requests[r].pc = "scored"
    /\ loop = r
    /\ requests' = [requests EXCEPT ![r] = [@ EXCEPT !.pc = "update_after_test"]
                                            @@ [read |-> memory]]
    /\ loop' = IF Suspends("update_after_test") THEN 0 ELSE r
    /\ UNCHANGED <<handlerVars, adapterVars, fileVars>>

\* update_after_test writes the profile back; the handler returns
UpdateWrites(r) ==
    /\ requests[r].pc = "update_after_test"
    /\ CanRun(r)
    /\ memory' \in update_after_test(requests[r].read, StudentId, r, "python",
                                     requests[r].totals.total_score,
                                     requests[r].totals.max_score,
                                     requests[r].totals.weak_concepts)
    /\ requests' = [requests EXCEPT ![r] = [pc |-> "done", totals |-> @.totals]]
    /\ loop' = 0
    /\ UNCHANGED <<tests, pc, ev, llm_calls, response, adapterVars, fileVars>>

NextLoop ==
    \/ Submit
    \/ \E r \in DOMAIN requests : HandlerRuns(r)
    \/ \E r \in DOMAIN requests, totals \in EvaluationTotals : BackendAnswers(r, totals)
    \/ \E r \in DOMAIN requests : UpdateReads(r)
    \/ \E r \in DOMAIN requests : UpdateWrites(r)

SpecLoop == Init /\ [][NextLoop]_vars

\* ------------------------------------------------------------------ storage files
\* TestStorage and StudentMemory across restarts of the process.  A storage
\* file is absent, holds the JSON text of a dict, or holds text that is no
\* JSON (a write that broke off).

\* json.dump of a dict of str, int, float and list values
json_dump(data) == [state |-> "json", data |-> data]

\* _save: open(storage_file, 'w') and json.dump inside try; a failure is
\* printed and swallowed.  The file ends up rewritten, or as it was (open
\* failed), or truncated (the write failed part way).
Save(file, data) == {json_dump(data), file, [state |-> "corrupt"]}

\* a save that cannot fail
Save_Always(file, data) == {json_dump(data)}

\* _load: json.load of the file if it exists; {} if it does not or if
\* reading it raises
Load(file) == IF file.state = "json" THEN file.data ELSE <<>>

\* the validated questions a test is stored with
InternalQuestions ==
    {QuestionInternal(q) : q \in {x \in RawQuestions : QuestionInternalValid(x)}}

\* storage.store_test(...): in memory, then _save()
StoreTest(questions) ==
    LET test_id == Cardinality(DOMAIN returned.tests) + 1 IN
    /\ test_id \in TestIds
    /\ tests' = store_test(tests, test_id, questions, "python", "easy")
    /\ test_file' \in Save(test_file, tests')
    /\ returned' = [returned EXCEPT !.tests = store_test(@, test_id, questions,
                                                         "python", "easy")]
    /\ UNCHANGED <<memory, memory_file, pc, ev, llm_calls, response,
                   adapterVars, loopVars>>

\* memory.update_after_test(...): in memory, then _save()
UpdateProfile(totals) ==
    /\ returned.updates < MaxHistory
    /\ memory' \in update_after_test(memory, StudentId, 1, "python",
                                     totals.total_score, totals.max_score,
                                     totals.weak_concepts)
    /\ memory_file' \in Save(memory_file, memory')
    /\ returned' = [returned EXCEPT !.memory = memory', !.updates = @ + 1]
    /\ UNCHANGED <<tests, test_file, pc, ev, llm_calls, response,
                   adapterVars, loopVars>>

\* the process ends and is started again: TestStorage() and StudentMemory()
\* are constructed anew
Restart ==
    /\ tests' = Load(test_file)
    /\ memory' = Load(memory_file)
    /\ UNCHANGED <<pc, ev, llm_calls, response, adapterVars, loopVars, fileVars>>

NextFiles ==
    \/ \E q \in InternalQuestions : StoreTest(<<q>>)
    \/ \E totals \in EvaluationTotals : UpdateProfile(totals)
    \/ Restart

SpecFiles == Init /\ [][NextFiles]_vars

\* ------------------------------------------------------------------ properties
\* the feedback entries of the evaluation in flight or last finished
Feedbacks == IF "question_feedback" \in DOMAIN ev THEN ev.question_feedback ELSE <<>>

\* the stored question a feedback entry belongs to
QuestionAt(k) == tests[ev.test_id].questions[k]

\* no answer for the question: its question_id is not among the submitted
\* answers, or the answer submitted for it is the empty string
Unanswered(k) ==
    \/ QuestionAt(k).question_id \notin DOMAIN ev.answer_map
    \/ ev.answer_map[QuestionAt(k).question_id] = <<>>

LastCall == llm_calls[Len(llm_calls)]

PrivateFields == {"correct_answer", "explanation", "concept_tag"}

\* C1: the questions of a generate response carry none of correct_answer,
\* explanation, concept_tag; the questions stored under the same test_id
\* carry all three.
C1_PublicQuestionsRedacted ==
    response.kind = "generate" =>
        /\ \A k \in DOMAIN response.questions :
              DOMAIN response.questions[k] \cap PrivateFields = {}
        /\ \A k \in DOMAIN tests[response.test_id].questions :
              PrivateFields \subseteq DOMAIN tests[response.test_id].questions[k]

C1_Witness ==
    /\ response.kind = "generate"
    /\ Len(response.questions) >= 2

\* the text between the first and the last non-whitespace character
TrimmedText(s) ==
    LET solid == {k \in DOMAIN s : s[k] \notin Whitespace}
    IN  IF solid = {} THEN <<>>
        ELSE SubSeq(s, CHOOSE k \in solid : \A j \in solid : k <= j,
                       CHOOSE k \in solid : \A j \in solid : k >= j)

SameLetter(c, d) ==
    \/ c = d
    \/ {c, d} = {"a", "A"}
    \/ {c, d} = {"b", "B"}

SameTextIgnoringCase(s, t) ==
    /\ Len(s) = Len(t)
    /\ \A k \in DOMAIN s : SameLetter(s[k], t[k])

\* C2: every feedback entry of an answered mcq question has is_correct true
\* exactly when the answer and the stored correct_answer are equal after
\* trimming and ignoring case, and points_earned is points_possible when
\* correct and 0 otherwise.
C2_McqCorrectness ==
    \A k \in DOMAIN Feedbacks :
        (QuestionAt(k).question_type = "mcq" /\ ~Unanswered(k)) =>
            LET f == Feedbacks[k]
                same == SameTextIgnoringCase(
                            TrimmedText(ev.answer_map[QuestionAt(k).question_id]),
                            TrimmedText(QuestionAt(k).correct_answer))
            IN  /\ f.is_correct = Some(same)
                /\ f.points_earned = IF same THEN QuestionAt(k).points ELSE 0
                /\ f.points_possible = QuestionAt(k).points

\* one mcq question worth 10 with correct_answer "B", answered "b " : correct,
\* 10 points, 100.00 percent
C2_Witness ==
    /\ response.kind = "evaluate"
    /\ Len(response.question_feedback) = 1
    /\ QuestionAt(1).question_type = "mcq"
    /\ QuestionAt(1).correct_answer = <<"B">>
    /\ QuestionAt(1).question_id \in DOMAIN ev.answer_map
    /\ ev.answer_map[QuestionAt(1).question_id] = <<"b", " ">>
    /\ response.question_feedback[1].is_correct = Some(TRUE)
    /\ response.question_feedback[1].points_earned = 10
    /\ response.percentage = 10000

\* C3 (as claimed): every feedback entry of an answered short or numerical
\* question has points_earned = floor(points_possible * (a + c + e) / 15).
C3_RubricPointsAreFloor ==
    \A k \in DOMAIN Feedbacks :
        (QuestionAt(k).question_type # "mcq" /\ ~Unanswered(k)) =>
            LET f == Feedbacks[k]
            IN  f.points_earned =
                  (f.points_possible
                     * (f.accuracy_score[1] + f.clarity_score[1] + f.explanation_score[1]))
                  \div 15

\* C4: a question with no answer gets 0 points and the fixed feedback, no
\* call_llm is made for it, and its concept_tag is among the weak_concepts
\* of the result.
C4_UnansweredQuestions ==
    \A k \in DOMAIN Feedbacks :
        Unanswered(k) =>
            /\ Feedbacks[k].points_earned = 0
            /\ Feedbacks[k].feedback = NoAnswerFeedback
            /\ Feedbacks[k].student_answer = <<>>
            /\ \A c \in DOMAIN llm_calls : llm_calls[c].question # k
            /\ response.kind = "evaluate" =>
                  QuestionAt(k).concept_tag \in Range(response.weak_concepts)

\* a result for a test with one question answered by the empty string and
\* another question that has no entry in student_answers
C4_Witness ==
    /\ response.kind = "evaluate"
    /\ \E k \in DOMAIN Feedbacks :
          QuestionAt(k).question_id \notin DOMAIN ev.answer_map
    /\ \E k \in DOMAIN Feedbacks :
          /\ QuestionAt(k).question_id \in DOMAIN ev.answer_map
          /\ ev.answer_map[QuestionAt(k).question_id] = <<>>

\* a question whose outcome marks its concept as weak
WeakOutcome(k) ==
    \/ Unanswered(k)
    \/ /\ QuestionAt(k).question_type = "mcq"
       /\ response.question_feedback[k].is_correct = Some(FALSE)
    \/ /\ QuestionAt(k).question_type # "mcq"
       /\ response.question_feedback[k].accuracy_score[1]
            + response.question_feedback[k].clarity_score[1]
            + response.question_feedback[k].explanation_score[1] < 9

\* C5: the weak_concepts of a result has no duplicates and holds exactly the
\* concept tags of the questions that were unanswered, answered incorrectly
\* (mcq) or scored a rubric total below 9.
C5_WeakConcepts ==
    response.kind = "evaluate" =>
        /\ \A i, j \in DOMAIN response.weak_concepts :
              response.weak_concepts[i] = response.weak_concepts[j] => i = j
        /\ Range(response.weak_concepts) =
              {QuestionAt(k).concept_tag :
                  k \in {n \in DOMAIN response.question_feedback : WeakOutcome(n)}}

\* a result in which two weak questions share a concept and another
\* question is not weak
C5_Witness ==
    /\ response.kind = "evaluate"
    /\ Len(ev.weak_concepts) > Len(response.weak_concepts)
    /\ Len(response.weak_concepts) >= 1

\* round(100 * total / max, 2) in hundredths, for max # 0
RoundedPercentage(total, max) ==
    IF max > 0 THEN RoundHalfEven(10000 * total, max)
    ELSE RoundHalfEven(-10000 * total, -max)

RECURSIVE SumOver(_, _)
SumOver(f, n) == IF n = 0 THEN 0 ELSE f[n] + SumOver(f, n - 1)

\* C6 (as claimed): in a result total_score and max_score are the sums of
\* points_earned and points_possible over the questions of the stored test,
\* and percentage is 0 when max_score is 0 and the rounded
\* 100 * total_score / max_score otherwise.
C6_Totals ==
    response.kind = "evaluate" =>
        LET qs == tests[response.test_id].questions
            fb == response.question_feedback
        IN  /\ Len(fb) = Len(qs)
            /\ response.total_score =
                  SumOver([k \in DOMAIN fb |-> fb[k].points_earned], Len(fb))
            /\ response.max_score =
                  SumOver([k \in DOMAIN qs |-> qs[k].points], Len(qs))
            /\ response.percentage =
                  IF response.max_score = 0 THEN 0
                  ELSE RoundedPercentage(response.total_score, response.max_score)

\* C7: total_points of a generate response is the sum of the points of the
\* questions stored under its test_id.
C7_TotalPoints ==
    response.kind = "generate" =>
        LET qs == tests[response.test_id].questions
        IN  response.total_points = SumOver([k \in DOMAIN qs |-> qs[k].points], Len(qs))

C7_Witness ==
    /\ response.kind = "generate"
    /\ \E i, j \in DOMAIN response.questions :
          response.questions[i].points # response.questions[j].points

\* the rubric of a parsed payload: three integer scores in 0..5 and a
\* feedback text
RubricUsable(result) ==
    /\ result.kind = "parsed"
    /\ result.payload[1].shape = "dict"
    /\ \A x \in {result.payload[1].accuracy_score, result.payload[1].clarity_score,
                 result.payload[1].explanation_score} :
          x # None /\ x[1] \in 0..5
    /\ result.payload[1].feedback = "string"

\* C8: when the call_llm of an answered short or numerical question fails
\* or its rubric is unusable, the evaluate call ends there with an error:
\* no result, no further question, student memory untouched.
C8_RubricFailureIsFatal ==
    [][\A result \in AdapterResults(EvaluationPayloads) :
          (/\ EvaluateAnswered(result)
           /\ QuestionAt(ev.i).question_type # "mcq"
           /\ ~RubricUsable(result))
          => /\ response'.kind = "error"
             /\ response'.status_code = 500
             /\ pc' = "idle"
             /\ memory' = memory]_vars

\* an evaluation that ended in the rubric error after an earlier question
\* had been scored
C8_Witness ==
    /\ response.kind = "error"
    /\ response.detail \in {"Question evaluation failed",
                            "LLM evaluation response validation failed"}
    /\ Len(Feedbacks) >= 1

\* C9 (as claimed): no evaluate call ends in an error at the call_llm of an
\* answered mcq question.
C9_McqFeedbackNeverAborts ==
    ~(/\ response.kind = "error"
      /\ llm_calls # <<>>
      /\ LastCall.purpose = "mcq")

\* C10 (as claimed): no evaluate call ends in an error once the overall
\* feedback call has been made.
C10_OverallFeedbackNeverAborts ==
    ~(/\ response.kind = "error"
      /\ llm_calls # <<>>
      /\ LastCall.purpose = "overall")

\* a generation payload of the right structural shape: an object whose
\* "questions" are all of a known question type
WellFormedPayload(p) ==
    /\ p.shape = "dict"
    /\ p.questions # None
    /\ \A k \in DOMAIN p.questions[1] :
         p.questions[1][k].question_type \in {"mcq", "short", "numerical"}

\* C11: a generate call that fails (adapter failure, wrong structural shape,
\* count mismatch) leaves the test store as it was; the store changes only in
\* a generate call whose payload validated and holds exactly the requested
\* number of questions, and then only by the one test the call returns.
C11_FailedGenerateStoresNothing ==
    [][\A request \in GenerateRequests, result \in AdapterResults(GenerationPayloads) :
          GenerateTest(request, result) =>
            /\ response'.kind \in {"error", "generate"}
            /\ response'.kind = "error" => tests' = tests
            /\ tests' # tests =>
                 /\ result.kind = "parsed"
                 /\ WellFormedPayload(result.payload[1])
                 /\ Len(result.payload[1].questions[1]) = request.number_of_questions
                 /\ response'.kind = "generate"
                 /\ DOMAIN tests' = DOMAIN tests \cup {response'.test_id}
                 /\ Len(tests'[response'.test_id].questions)
                      = request.number_of_questions
            /\ \A t \in DOMAIN tests : t \in DOMAIN tests' /\ tests'[t] = tests[t]
            /\ ~(/\ result.kind = "parsed"
                 /\ WellFormedPayload(result.payload[1])
                 /\ Len(result.payload[1].questions[1]) = request.number_of_questions)
                 => response'.kind = "error"]_vars

\* a generate call failed on the question count and nothing was stored
C11_Witness ==
    /\ response.kind = "error"
    /\ response.detail = "LLM generated wrong number of questions"
    /\ llm_calls = <<[purpose |-> "generation", question |-> 0]>>
    /\ tests = <<>>

\* C19: every question of every stored test has mcq_options exactly when its
\* question_type is mcq, and the options present are the four labeled A, B,
\* C, D; validation rejects any payload that would break this.
C19_McqOptionsIffMcq ==
    \A t \in DOMAIN tests : \A k \in DOMAIN tests[t].questions :
        LET q == tests[t].questions[k] IN
        /\ q.mcq_options # None <=> q.question_type = "mcq"
        /\ q.mcq_options # None => q.mcq_options[1] = LabelsABCD

\* C20: an evaluate call that ends with an error (unknown test_id, fatal
\* rubric failure, failure while building the result or the response) leaves
\* student memory as it was; memory changes only in an evaluate call that
\* returns a complete result.
C20_FailedEvaluateLeavesMemory ==
    [][/\ (pc' = "idle" /\ response'.kind = "error") => memory' = memory
       /\ memory' # memory => response'.kind = "evaluate"]_vars

\* the backend requests of the call_llm invocation, in order
Requests == IF "requests" \in DOMAIN adapter THEN adapter.requests ELSE <<>>

\* a reply whose text is no JSON once the code fences are stripped
Unparseable(reply) ==
    reply.kind = "text" /\ json_loads(StripCodeFences(reply.content)) = None

\* a JSON object inside a json code fence
FencedJson == <<Fence, "json", " ", "{}", " ", Fence>>

\* C12: within one call_llm with retry budget max_retries, a further backend
\* request is issued only after the previous reply failed to parse as JSON
\* (code fences stripped) and carries the prompt with one more reinforcement
\* clause; the call returns the parsed payload of the first parseable reply
\* with no further request, a fenced json payload parsing on the first
\* attempt; when all max_retries replies are unparseable it fails with
\* MalformedResponse after exactly max_retries requests.
C12_RetryOnlyOnMalformedJson ==
    /\ Len(Requests) > 0 => Requests[1].prompt = 0
    /\ \A k \in 2..Len(Requests) :
         /\ Unparseable(Requests[k - 1].reply)
         /\ Requests[k].prompt = Requests[k - 1].prompt + 1
    /\ adapter.pc # "idle" => Len(Requests) <= adapter.max_retries
    /\ adapter.pc = "attempt" =>
         /\ Len(Requests) < adapter.max_retries
         /\ \A k \in 1..Len(Requests) : Unparseable(Requests[k].reply)
    /\ adapter.pc = "returned" =>
         LET last == Requests[Len(Requests)].reply IN
         /\ last.kind = "text"
         /\ ~Unparseable(last)
         /\ adapter.payload = json_loads(StripCodeFences(last.content))
    /\ (Len(Requests) > 0 /\ Requests[1].reply = [kind |-> "text", content |-> FencedJson]) =>
         /\ adapter.pc = "returned"
         /\ Len(Requests) = 1
         /\ adapter.payload = Some("{}")
    /\ (adapter.pc = "raised" /\ adapter.kind = "MalformedResponse") =>
         /\ Len(Requests) = adapter.max_retries
         /\ \A k \in 1..Len(Requests) : Unparseable(Requests[k].reply)
    /\ (/\ adapter.pc # "idle"
        /\ Len(Requests) = adapter.max_retries
        /\ \A k \in 1..Len(Requests) : Unparseable(Requests[k].reply)) =>
         adapter.pc = "raised" /\ adapter.kind = "MalformedResponse"

\* a call with budget 2 whose first reply was prose and whose second request,
\* carrying one reinforcement clause, got a fenced payload and returned it
C12_Witness ==
    /\ adapter.pc = "returned"
    /\ adapter.max_retries = 2
    /\ Len(Requests) = 2
    /\ Unparseable(Requests[1].reply)
    /\ Requests[2].prompt = 1
    /\ Requests[2].reply.content = FencedJson
    /\ adapter.payload = Some("{}")

\* a reply that is a failure of the backend, not unparseable text
BackendFailure(reply) == reply.kind \in {"raises", "null"}

\* C13: a backend failure that is not a JSON parse failure ends the call at
\* once with BackendError: no further request whatever retry budget remains,
\* and the error differs in kind and exception type from MalformedResponse.
C13_BackendErrorEndsCall ==
    /\ \A k \in 1..Len(Requests) :
         BackendFailure(Requests[k].reply) =>
           /\ k = Len(Requests)
           /\ adapter.pc = "raised"
           /\ adapter.kind = "BackendError"
           /\ adapter.exception = "Exception"
    /\ (adapter.pc = "raised" /\ adapter.kind = "MalformedResponse") =>
         /\ adapter.exception = "ValueError"
         /\ \A k \in 1..Len(Requests) : ~BackendFailure(Requests[k].reply)
    /\ (adapter.pc = "raised" /\ adapter.kind = "BackendError") =>
         /\ Len(Requests) > 0
         /\ BackendFailure(Requests[Len(Requests)].reply)

\* the backend raised on the first request of a call with budget 3: the call
\* failed with BackendError and two attempts unused
C13_Witness ==
    /\ adapter.pc = "raised"
    /\ adapter.kind = "BackendError"
    /\ adapter.max_retries = 3
    /\ Len(Requests) = 1
    /\ Requests[1].reply.kind = "raises"

\* the profile of the one student, if there is one
HasProfile == StudentId \in DOMAIN memory

History == IF HasProfile THEN memory[StudentId].test_history ELSE <<>>

WeakList == IF HasProfile THEN memory[StudentId].weak_concepts ELSE <<>>

\* the request whose update_after_test returns in this step
Returning(r) ==
    /\ r \in DOMAIN requests
    /\ requests[r].pc = "update_after_test"
    /\ requests'[r].pc = "done"

\* the percentage of a test, rounded to hundredths
PercentageOf(totals) ==
    IF totals.max_score > 0
    THEN RoundHalfEven(10000 * totals.total_score, totals.max_score)
    ELSE 0

\* C14: over the updates of one student weak_concepts only grows: after an
\* update it holds the concepts it held before together with the concepts
\* passed to the update, each once, and none is ever removed.
C14_WeakConceptsOnlyGrow ==
    [][\A r \in DOMAIN requests :
          Returning(r) =>
            /\ Range(WeakList') = Range(WeakList) \cup Range(requests[r].totals.weak_concepts)
            /\ Len(WeakList') = Cardinality(Range(WeakList'))
            /\ Range(WeakList) \subseteq Range(WeakList')]_vars

\* after a second update that passed only "loops" the profile still holds
\* "recursion" from the first
C14_Witness ==
    /\ Len(History) = 2
    /\ History[1].weak_concepts = <<"recursion", "loops">>
    /\ History[2].weak_concepts = <<"loops", "loops">>
    /\ Range(WeakList) = {"recursion", "loops"}
    /\ Len(WeakList) = 2

SumOfPercentages(h) == SumSeq([k \in DOMAIN h |-> h[k].percentage])

\* the record an update with these totals appends
RecordOf(r, totals) ==
    [test_id |-> r, topic |-> "python", score |-> totals.total_score,
     max_score |-> totals.max_score, percentage |-> PercentageOf(totals),
     weak_concepts |-> totals.weak_concepts]

\* each update appends its record to test_history and leaves the earlier
\* records as they were; total_tests counts the records
HistoryAppendOnly ==
    /\ \A r \in DOMAIN requests :
         Returning(r) => History' = Append(History, RecordOf(r, requests[r].totals))
    /\ HasProfile' => memory'[StudentId].total_tests = Len(History')

\* C15 as amended: after n updates test_history holds the n records in call
\* order, earlier records unchanged, and average_score is the unweighted
\* mean of the n percentages rounded to two decimals (a hundredth nearest to
\* the mean).
C15_HistoryAndRoundedMean ==
    [][/\ HistoryAppendOnly
       /\ HasProfile' =>
            LET n == Len(History')
                d == n * memory'[StudentId].average_score - SumOfPercentages(History')
            IN  n > 0 /\ 2 * d <= n /\ -2 * d <= n]_vars

\* two updates with percentages 33.33 and 50.00: the mean 41.665 is stored
\* rounded
C15_Witness ==
    /\ Len(History) = 2
    /\ History[1].percentage = 3333
    /\ History[2].percentage = 5000
    /\ memory[StudentId].average_score \in {4166, 4167}

\* C15 as stated: after n updates test_history holds the n records in call
\* order, earlier records unchanged, and average_score equals the unweighted
\* mean of the n percentages.
C15_HistoryAndExactMean ==
    [][/\ HistoryAppendOnly
       /\ HasProfile' =>
            Len(History') * memory'[StudentId].average_score
              = SumOfPercentages(History')]_vars

\* the submissions whose update has returned
Done == {r \in DOMAIN requests : requests[r].pc = "done"}

\* C16: with evaluate submissions for the same student in flight together,
\* no interleaving loses an update: once k updates have returned the profile
\* has k history records, one per submission, weak_concepts is the union of
\* the k contributions and average_score is taken over all k percentages.
C16_NoLostUpdate ==
    /\ Len(History) = Cardinality(Done)
    /\ {History[k].test_id : k \in DOMAIN History} = Done
    /\ \A k \in DOMAIN History :
         History[k] = RecordOf(History[k].test_id, requests[History[k].test_id].totals)
    /\ Range(WeakList) =
         UNION {Range(requests[r].totals.weak_concepts) : r \in Done}
    /\ HasProfile =>
         LET d == Len(History) * memory[StudentId].average_score
                    - SumSeq([k \in DOMAIN History |->
                                PercentageOf(requests[History[k].test_id].totals)])
         IN  2 * d <= Len(History) /\ -2 * d <= Len(History)

\* both submissions were accepted before either ran; the later one's update
\* returned first and both are in the profile
C16_Witness ==
    /\ Done = {1, 2}
    /\ Len(History) = 2
    /\ History[1].test_id = 2
    /\ History[2].test_id = 1

\* what request r can do next
StepOf(r) ==
    \/ HandlerRuns(r)
    \/ \E totals \in EvaluationTotals : BackendAnswers(r, totals)
    \/ UpdateReads(r)
    \/ UpdateWrites(r)

\* C17: a backend call is a suspension point: while one request waits on
\* its backend call, another request that has not finished can still take
\* its next step.
C17_BackendCallDoesNotBlock ==
    \A a \in DOMAIN requests, b \in DOMAIN requests :
        (a # b /\ requests[a].pc = "call_llm" /\ requests[b].pc # "done")
            => ENABLED StepOf(b)

\* C18: persisted state survives a restart: every test whose store_test
\* returned and every profile update that returned before the restart is
\* read back unchanged by get_test / get_student_profile on the freshly
\* constructed stores.
C18_ReturnedStateSurvivesRestart ==
    [][Restart =>
         /\ \A t \in DOMAIN returned.tests :
              get_test(tests', t) = Some(returned.tests[t])
         /\ \A s \in DOMAIN returned.memory :
              get_student_profile(memory', s) = Some(returned.memory[s])]_vars

\* C21: in every successful evaluation of a stored test each feedback entry
\* has 0 <= points_earned <= points_possible, so 0 <= total_score <=
\* max_score and 0 <= percentage <= 100, in the result and in the record
\* appended to the student's test_history.
C21_ScoresWithinBounds ==
    response.kind = "evaluate" =>
        /\ \A k \in DOMAIN response.question_feedback :
             LET f == response.question_feedback[k]
             IN  0 <= f.points_earned /\ f.points_earned <= f.points_possible
        /\ 0 <= response.total_score
        /\ response.total_score <= response.max_score
        /\ 0 <= response.percentage
        /\ response.percentage <= 10000
        /\ StudentId \in DOMAIN memory
        /\ LET h == memory[StudentId].test_history
               record == h[Len(h)]
           IN  /\ Len(h) > 0
               /\ record.test_id = response.test_id
               /\ 0 <= record.score
               /\ record.score <= record.max_score
               /\ 0 <= record.percentage
               /\ record.percentage <= 10000

====
